---- MODULE Spec2Model ----
(***************************************************************************)
(* Streaming relay of the Crucible / NexusIDE repository.                  *)
(*                                                                         *)
(*   server/routes.ts   three POST endpoints relaying an upstream          *)
(*                      event-stream to the downstream response            *)
(*   lib/streaming.ts   streamFromApi, the client-side decoder             *)
(*                                                                         *)
(* Text is modelled at the level the code works on.  A byte stream is a    *)
(* sequence of bytes, a JavaScript string is a sequence of characters.     *)
(* An ASCII byte and its character are written as the same one-letter      *)
(* string.  The two-byte UTF-8 character U+00E9 is the bytes "C3" "A9"     *)
(* and the character "U+E9"; the replacement character U+FFFD is the       *)
(* character "U+FFFD" and the bytes "EF" "BF" "BD".  Runs of JSON          *)
(* punctuation that the decoders never look into are written as one        *)
(* symbol each:                                                            *)
(*    "{u"   {"choices":[{"delta":{"content":"                             *)
(*    "u}"   "}}]}                                                         *)
(*    "{r}"  {"choices":[{"delta":{"role":"assistant"}}]}                  *)
(*    "{c"   {"content":"          "{e"   {"error":"          "}"   "}     *)
(***************************************************************************)
EXTENDS Integers, Sequences, FiniteSets, TLC

\* ------------------------------------------------------------------------
\* Bounds of the model
\* ------------------------------------------------------------------------

\* longest upstream body, counted in lines
MaxLines == 2

\* ------------------------------------------------------------------------
\* Characters, bytes and string helpers
\* ------------------------------------------------------------------------

NL == "\n"

\* the characters String.prototype.trim removes (those the streams can hold)
Whitespace == {" ", "\r", NL}

\* the literal "data: " tested by startsWith and removed by slice(6)
DataPrefix == <<"d", "a", "t", "a", ":", " ">>

\* the literal "[DONE]"
DoneSentinel == <<"[", "D", "O", "N", "E", "]">>

\* s.startsWith(p)
StartsWith(s, p) == Len(s) >= Len(p) /\ SubSeq(s, 1, Len(p)) = p

\* s.slice(n)
Slice(s, n) == SubSeq(s, n + 1, Len(s))

RECURSIVE TrimStart(_)
TrimStart(s) ==
  IF s # <<>> /\ Head(s) \in Whitespace THEN TrimStart(Tail(s)) ELSE s

RECURSIVE TrimEnd(_)
TrimEnd(s) ==
  IF s # <<>> /\ s[Len(s)] \in Whitespace
  THEN TrimEnd(SubSeq(s, 1, Len(s) - 1)) ELSE s

\* s.trim()
Trim(s) == TrimEnd(TrimStart(s))

\* s.indexOf("\n") + 1: the place of the first newline of s, 0 when none
IndexOfNL(s) ==
  LET I == {i \in 1..Len(s) : s[i] = NL}
  IN  IF I = {} THEN 0 ELSE CHOOSE i \in I : \A j \in I : i <= j

\* s.split("\n"): always at least one segment
RECURSIVE Split(_)
Split(s) ==
  LET i == IndexOfNL(s) IN
  IF i = 0 THEN <<s>>
  ELSE <<SubSeq(s, 1, i - 1)>> \o Split(SubSeq(s, i + 1, Len(s)))

\* lines.pop() || "" : the last segment
Last(lines) == lines[Len(lines)]

\* what is left in lines after lines.pop()
AllButLast(lines) == SubSeq(lines, 1, Len(lines) - 1)

\* ------------------------------------------------------------------------
\* UTF-8
\* ------------------------------------------------------------------------

\* continuation bytes
ContBytes == {"A9", "BF", "BD"}

\* number of continuation bytes a lead byte announces, 0 for an ASCII byte
Need(b) == IF b = "C3" THEN 1 ELSE IF b = "EF" THEN 2 ELSE 0

\* the character a complete multi-byte sequence stands for
CodePoint(bs) ==
  IF bs = <<"C3", "A9">> THEN "U+E9"
  ELSE IF bs = <<"EF", "BF", "BD">> THEN "U+FFFD"
  ELSE "U+other"

\* s[i] is a continuation byte
IsCont(s, i) == i >= 1 /\ i <= Len(s) /\ s[i] \in ContBytes

\* s[i] is a lead byte
IsLead(s, i) == i >= 1 /\ i <= Len(s) /\ Need(s[i]) > 0

\* number of continuation bytes that follow the lead byte s[i], at most
\* the number it announces
Follow(s, i) ==
  IF ~IsCont(s, i + 1) THEN 0
  ELSE IF Need(s[i]) = 2 /\ IsCont(s, i + 2) THEN 2 ELSE 1

\* the continuation byte s[i] belongs to the sequence of a lead byte
Claimed(s, i) ==
  \/ IsLead(s, i - 1)
  \/ IsLead(s, i - 2) /\ Need(s[i - 2]) = 2 /\ IsCont(s, i - 1)

\* the lead byte s[i] opens a sequence that the end of s cuts short
CutShort(s, i) == Follow(s, i) < Need(s[i]) /\ i + Follow(s, i) = Len(s)

\* the character decoded at byte i of s, "" where byte i yields none
Decoded(s, i, stream) ==
  IF IsCont(s, i) THEN (IF Claimed(s, i) THEN "" ELSE "U+FFFD")
  ELSE IF Need(s[i]) = 0 THEN s[i]
  ELSE IF Follow(s, i) = Need(s[i]) THEN CodePoint(SubSeq(s, i, i + Need(s[i])))
  ELSE IF stream /\ CutShort(s, i) THEN ""
  ELSE "U+FFFD"

IsChar(c) == c # ""

\* UTF-8 decoding of the bytes s.  An ill-formed sequence becomes U+FFFD.
\* A sequence cut short by the end of s becomes U+FFFD when stream is
\* FALSE and is handed back in rest when stream is TRUE.
Utf8Decode(s, stream) ==
  LET cut == {i \in 1..Len(s) : IsLead(s, i) /\ CutShort(s, i)}
  IN  [out  |-> SelectSeq([i \in 1..Len(s) |-> Decoded(s, i, stream)], IsChar),
       rest |-> IF stream /\ cut # {}
                THEN SubSeq(s, CHOOSE i \in cut : TRUE, Len(s)) ELSE <<>>]

\* chunk.toString(): every chunk is decoded on its own
BufferToString(chunk) == Utf8Decode(chunk, FALSE).out

\* decoder.decode(value, {stream: true}) of a decoder holding pending
TextDecoderDecode(pending, value) == Utf8Decode(pending \o value, TRUE)

\* the bytes res.write sends for a string
RECURSIVE Utf8Encode(_)
Utf8Encode(str) ==
  IF str = <<>> THEN <<>>
  ELSE (IF Head(str) = "U+E9" THEN <<"C3", "A9">>
        ELSE IF Head(str) = "U+FFFD" THEN <<"EF", "BF", "BD">>
        ELSE <<Head(str)>>) \o Utf8Encode(Tail(str))

\* ------------------------------------------------------------------------
\* JSON
\* ------------------------------------------------------------------------

JsonTokens == {"{u", "u}", "{r}", "{c", "{e", "}"}

IsText(s) == \A i \in 1..Len(s) : s[i] \notin JsonTokens

Inner(s) == SubSeq(s, 2, Len(s) - 1)

Framed(s, open, close) ==
  Len(s) >= 2 /\ s[1] = open /\ s[Len(s)] = close /\ IsText(Inner(s))

\* JSON.parse(data): ok is FALSE where it throws
ParseJSON(data) ==
  IF Framed(data, "{u", "u}") THEN [ok |-> TRUE, kind |-> "choices", text |-> Inner(data)]
  ELSE IF data = <<"{r}">> THEN [ok |-> TRUE, kind |-> "role", text |-> <<>>]
  ELSE IF Framed(data, "{c", "}") THEN [ok |-> TRUE, kind |-> "content", text |-> Inner(data)]
  ELSE IF Framed(data, "{e", "}") THEN [ok |-> TRUE, kind |-> "error", text |-> Inner(data)]
  ELSE [ok |-> FALSE, kind |-> "none", text |-> <<>>]

\* parsed.choices?.[0]?.delta?.content || ""
DeltaContent(parsed) == IF parsed.kind = "choices" THEN parsed.text ELSE <<>>

\* `data: ${JSON.stringify({ content })}\n\n`
ContentEnvelope(content) == DataPrefix \o <<"{c">> \o content \o <<"}", NL, NL>>

\* `data: ${JSON.stringify({ error: err.message })}\n\n`
ErrorEnvelope(message) == DataPrefix \o <<"{e">> \o message \o <<"}", NL, NL>>

\* "data: [DONE]\n\n"
DoneLine == DataPrefix \o DoneSentinel \o <<NL, NL>>

\* ------------------------------------------------------------------------
\* Relay decoder (server/routes.ts)
\* ------------------------------------------------------------------------

\* the loop body without its catch: a payload that does not parse is
\* written all the same
DataLineNoSkip(line) ==
  IF ~StartsWith(line, DataPrefix) THEN <<>>
  ELSE LET data == Trim(Slice(line, 6)) IN
       IF data = DoneSentinel THEN <<DoneLine>>
       ELSE LET parsed == ParseJSON(data) IN
            IF parsed.ok /\ DeltaContent(parsed) = <<>> THEN <<>>
            ELSE <<ContentEnvelope(DeltaContent(parsed))>>

\* body of the for loop of the data handler: the strings it writes
DataLine(line) ==
  IF ~StartsWith(line, DataPrefix) THEN <<>>
  ELSE LET data == Trim(Slice(line, 6)) IN
       IF data = DoneSentinel THEN <<DoneLine>>
       ELSE LET parsed == ParseJSON(data) IN
            IF parsed.ok /\ DeltaContent(parsed) # <<>>
            THEN <<ContentEnvelope(DeltaContent(parsed))>> ELSE <<>>

\* a loop body that writes the envelope whatever the content
EndLineNoCheck(line) ==
  IF ~StartsWith(line, DataPrefix) THEN <<>>
  ELSE LET data == Trim(Slice(line, 6)) IN
       IF data = DoneSentinel THEN <<>>
       ELSE LET parsed == ParseJSON(data) IN
            IF parsed.ok THEN <<ContentEnvelope(DeltaContent(parsed))>> ELSE <<>>

\* body of the for loop of the end handler
EndLine(line) ==
  IF ~StartsWith(line, DataPrefix) THEN <<>>
  ELSE LET data == Trim(Slice(line, 6)) IN
       IF data = DoneSentinel THEN <<>>
       ELSE LET parsed == ParseJSON(data) IN
            IF parsed.ok /\ DeltaContent(parsed) # <<>>
            THEN <<ContentEnvelope(DeltaContent(parsed))>> ELSE <<>>

RECURSIVE DataLines(_)
DataLines(lines) ==
  IF lines = <<>> THEN <<>> ELSE DataLine(Head(lines)) \o DataLines(Tail(lines))

RECURSIVE EndLines(_)
EndLines(lines) ==
  IF lines = <<>> THEN <<>> ELSE EndLine(Head(lines)) \o EndLines(Tail(lines))

\* proxyRes.on("data"): the new buffer and the strings written
OnData(buf, chunk) ==
  LET lines == Split(buf \o BufferToString(chunk)) IN
  [buffer |-> Last(lines), writes |-> DataLines(AllButLast(lines))]

\* an end handler that drops what is left in the buffer
OnEndNoResidual(buf) == <<DoneLine>>

\* proxyRes.on("end"): the strings written before res.end()
OnEnd(buf) ==
  (IF Trim(buf) # <<>> THEN EndLines(Split(buf)) ELSE <<>>) \o <<DoneLine>>

\* ------------------------------------------------------------------------
\* Inputs
\* ------------------------------------------------------------------------

Endpoints == {"/api/chat", "/api/generate-module", "/api/self-modify"}

\* An optional string is <<>> when it is undefined and <<s>> when it is the
\* string s.
Undefined == <<>>
Some(s) == <<s>>

\* req.body.apiKey: absent, empty, usable, or holding a character that no
\* header value may hold
ApiKeys == {Undefined, Some(<<>>), Some(<<"k">>), Some(<<"k", NL>>)}

\* process.env.NVIDIA_NIM_API_KEY: unset, empty or set
EnvKeys == {Undefined, Some(<<>>), Some(<<"e">>)}

\* err.message of the errors the upstream request and response report.
\* The handlers forward it unexamined, so it ranges over every string, the
\* empty one included (the AggregateError raised when every address of the
\* host fails carries an empty message).
ErrMessages == {<<>>, <<"m">>}

\* as Truthy, but only undefined counts as missing
TruthyDefined(v) == v # Undefined

\* truthiness of an optional string
Truthy(v) == v # Undefined /\ v[1] # <<>>

\* as Or, with the operands taken in the other order
OrSwapped(a, b) == IF Truthy(b) THEN b ELSE a

\* a || b
Or(a, b) == IF Truthy(a) THEN a ELSE b

\* `Bearer ${key}`
Bearer(key) == <<"Bearer", " ">> \o key

\* https.request throws ERR_INVALID_CHAR for such a header value
InvalidHeaderValue(v) == \E i \in 1..Len(v) : v[i] \in {NL, "\r"}

\* one line of an upstream body, without its newline
ContentLine(text) == DataPrefix \o <<"{u">> \o text \o <<"u}">>
UpDoneLine == DataPrefix \o DoneSentinel

\* the lines the provider sends in the session specification
SessionLines == {ContentLine(<<"H">>), UpDoneLine}

\* bodies of at most n lines of L, every line ended by a newline
RECURSIVE Bodies(_, _)
Bodies(L, n) ==
  IF n = 0 THEN {<<>>}
  ELSE {<<>>} \cup {l \o <<NL>> \o b : l \in L, b \in Bodies(L, n - 1)}

\* the same bodies, and those whose last newline is missing
WithCut(B) == B \cup {SubSeq(b, 1, Len(b) - 1) : b \in B \ {<<>>}}

SessionBodies == WithCut(Bodies(SessionLines, MaxLines))

\* ------------------------------------------------------------------------
\* State
\* ------------------------------------------------------------------------

VARIABLES
  ep,          \* the endpoint the request was posted to
  apiKey,      \* req.body.apiKey
  envKey,      \* process.env.NVIDIA_NIM_API_KEY
  up,          \* the bytes of the upstream response body
  handler,     \* "start", "rejected", "returned" or "threw"
  log,         \* calls made on res and https, in order
  wire,        \* bytes the downstream response has sent
  upReqs,      \* upstream requests opened, each with its headers
  upState,     \* "none", "pending", "refused", "open", "aborting", "ended", "failed"
  reqErrored,  \* proxyReq has emitted 'error'
  upPos,       \* bytes of up delivered to the data handler
  buffer,      \* let buffer of the response callback
  cstate,      \* streamFromApi: "idle", "fetching", "reading", "resolved", "rejected"
  hasOnError,  \* streamFromApi was given an onError callback
  cpos,        \* bytes of wire the reader has returned
  cpending,    \* bytes the TextDecoder holds back
  cbuffer,     \* let buffer of streamFromApi
  chunks,      \* arguments of the onChunk calls, in order
  errors,      \* arguments of the onError calls, in order
  thrown,      \* message of the Error streamFromApi rejected with, or <<>>
  sessions,    \* concurrent relay sessions: the state each request owns
  buildLogs,   \* build screen: the entries of the build log
  isGenerating,\* build screen: state isGenerating
  files,       \* app context: the workspace file list
  currentFile, \* app context: name of the file in the editor, or Null
  editorCode,  \* app context: text in the editor
  chatMessages,\* app context: the chat messages
  input,       \* chat screen: state of the text input
  isStreaming, \* chat screen: state isStreaming
  showTyping,  \* chat screen: state showTyping
  rendered,    \* chat screen: the state values of the last render
  streams      \* chat screen: the handleSend calls that have passed the guard

relayVars == <<ep, apiKey, envKey, up, handler, log, wire, upReqs, upState,
               reqErrored, upPos, buffer>>
clientVars == <<cstate, hasOnError, cpos, cpending, cbuffer, chunks, errors,
                thrown>>
buildVars == <<buildLogs, isGenerating>>
fileVars == <<files, currentFile, editorCode>>
chatVars == <<chatMessages, input, isStreaming, showTyping, rendered, streams>>
appVars == <<sessions, buildVars, fileVars, chatVars>>
vars == <<relayVars, clientVars, appVars>>

Call(op, data) == [op |-> op, data |-> data]

\* res.end() has been called
Ended(l) == \E i \in 1..Len(l) : l[i].op = "end"

\* res.write(str) for every str of strs, in order
RECURSIVE Writes(_)
Writes(strs) ==
  IF strs = <<>> THEN <<>> ELSE <<Call("write", Head(strs))>> \o Writes(Tail(strs))

RECURSIVE Flatten(_)
Flatten(strs) ==
  IF strs = <<>> THEN <<>> ELSE Head(strs) \o Flatten(Tail(strs))

\* The response sends what is written to it until it is ended; a write
\* after end() sends nothing.
Send(l, w, strs) == IF Ended(l) THEN w ELSE w \o Utf8Encode(Flatten(strs))

ClientIdle ==
  /\ cstate = "idle" /\ hasOnError = FALSE /\ cpos = 0 /\ cpending = <<>>
  /\ cbuffer = <<>> /\ chunks = <<>> /\ errors = <<>> /\ thrown = <<>>

\* no other request is being handled and the screens are at rest
\* null; the code tells it from a file name by its truth value only, as it
\* does the empty string
Null == <<>>

BuildIdle == buildLogs = <<>> /\ isGenerating = FALSE
FilesIdle == files = <<>> /\ currentFile = Null /\ editorCode = <<>>
ChatIdle ==
  /\ chatMessages = <<>> /\ input = <<>> /\ isStreaming = FALSE
  /\ showTyping = FALSE
  /\ rendered = [input |-> <<>>, isStreaming |-> FALSE, chatMessages |-> <<>>]
  /\ streams = <<>>

AppIdle == sessions = <<>> /\ BuildIdle /\ FilesIdle /\ ChatIdle

RelayStart ==
  /\ handler = "start" /\ log = <<>> /\ wire = <<>> /\ upReqs = <<>>
  /\ upState = "none" /\ reqErrored = FALSE /\ upPos = 0 /\ buffer = <<>>

Init ==
  /\ ep \in Endpoints
  /\ apiKey \in ApiKeys
  /\ envKey \in EnvKeys
  /\ up \in SessionBodies
  /\ RelayStart
  /\ ClientIdle
  /\ AppIdle

\* ------------------------------------------------------------------------
\* Relay: the request handler
\* ------------------------------------------------------------------------

\* the headers set and never flushed
StreamHeadersNoFlush ==
  <<Call("setHeader", <<"Content-Type", "text/event-stream">>),
    Call("setHeader", <<"Cache-Control", "no-cache, no-transform">>),
    Call("setHeader", <<"X-Accel-Buffering", "no">>)>>

StreamHeaders ==
  <<Call("setHeader", <<"Content-Type", "text/event-stream">>),
    Call("setHeader", <<"Cache-Control", "no-cache, no-transform">>),
    Call("setHeader", <<"X-Accel-Buffering", "no">>),
    Call("flushHeaders", <<>>)>>

\* res.headersSent
HeadersSent(l) == \E i \in 1..Len(l) : l[i].op \in {"flushHeaders", "json"}

\* app.post(ep, ...): the handler up to its return.  req.body is an object.
\* The three handlers differ in the prompt they build and in nothing the
\* model keeps, so one action stands for the three.  The branch of the
\* catch block that answers 500 needs a throw before flushHeaders(), which
\* a request with an object body does not cause.
Handle ==
  /\ handler = "start"
  /\ LET key == Or(apiKey, envKey) IN
     IF ~Truthy(key)
     THEN /\ log' = <<Call("status400", <<>>),
                      Call("json", <<"{e", "No API key configured", "}">>)>>
          /\ handler' = "rejected"
          /\ UNCHANGED <<upReqs, upState>>
     ELSE IF InvalidHeaderValue(Bearer(key[1]))
     THEN \* https.request throws; the catch block finds headersSent
          /\ log' = StreamHeaders
          /\ handler' = "threw"
          /\ UNCHANGED <<upReqs, upState>>
     ELSE /\ log' = StreamHeaders \o <<Call("https.request", Bearer(key[1]))>>
          /\ upReqs' = Append(upReqs, [authorization |-> Bearer(key[1])])
          /\ upState' = "pending"
          /\ handler' = "returned"
  /\ UNCHANGED <<ep, apiKey, envKey, up, wire, reqErrored, upPos, buffer>>
  /\ UNCHANGED <<clientVars, appVars>>

\* ------------------------------------------------------------------------
\* Relay: the upstream events
\* ------------------------------------------------------------------------

\* number of 'error' listeners on proxyReq
ReqErrorListeners(e, responded) ==
  IF e = "/api/self-modify" /\ responded THEN 2 ELSE 1

\* an error listener that ends the response and writes nothing
ErrorCallsEndOnly(message) == <<Call("end", <<>>)>>

\* one run of an error listener: write the envelope, end
ErrorCalls(message) == <<Call("write", ErrorEnvelope(message)), Call("end", <<>>)>>

RECURSIVE Repeat(_, _)
Repeat(calls, n) == IF n = 0 THEN <<>> ELSE calls \o Repeat(calls, n - 1)

\* the callback of https.request runs: the response has arrived
Response ==
  /\ upState = "pending"
  /\ upState' = "open"
  /\ buffer' = <<>>
  /\ UNCHANGED <<ep, apiKey, envKey, up, handler, log, wire, upReqs, reqErrored, upPos>>
  /\ UNCHANGED <<clientVars, appVars>>

\* proxyRes emits 'data' with the next n bytes
Data(n) ==
  /\ upState = "open"
  /\ upPos + n <= Len(up)
  /\ LET r == OnData(buffer, SubSeq(up, upPos + 1, upPos + n)) IN
     /\ buffer' = r.buffer
     /\ log' = log \o Writes(r.writes)
     /\ wire' = Send(log, wire, r.writes)
  /\ upPos' = upPos + n
  /\ UNCHANGED <<ep, apiKey, envKey, up, handler, upReqs, upState, reqErrored>>
  /\ UNCHANGED <<clientVars, appVars>>

\* an end handler that ends the response without the terminator
EndNoTerminator ==
  /\ upState = "open"
  /\ upPos = Len(up)
  /\ log' = log \o Writes(AllButLast(OnEnd(buffer))) \o <<Call("end", <<>>)>>
  /\ wire' = Send(log, wire, AllButLast(OnEnd(buffer)))
  /\ upState' = "ended"
  /\ UNCHANGED <<ep, apiKey, envKey, up, handler, upReqs, reqErrored, upPos, buffer>>
  /\ UNCHANGED <<clientVars, appVars>>

\* proxyRes emits 'end'
End ==
  /\ upState = "open"
  /\ upPos = Len(up)
  /\ log' = log \o Writes(OnEnd(buffer)) \o <<Call("end", <<>>)>>
  /\ wire' = Send(log, wire, OnEnd(buffer))
  /\ upState' = "ended"
  /\ UNCHANGED <<ep, apiKey, envKey, up, handler, upReqs, reqErrored, upPos, buffer>>
  /\ UNCHANGED <<clientVars, appVars>>

\* a response error listener that writes the envelope and does not end
ResErrorNoEnd(message) ==
  /\ upState \in {"open", "aborting"}
  /\ log' = log \o <<Call("write", ErrorEnvelope(message))>>
  /\ wire' = Send(log, wire, <<ErrorEnvelope(message)>>)
  /\ upState' = "failed"
  /\ UNCHANGED <<ep, apiKey, envKey, up, handler, upReqs, reqErrored, upPos, buffer>>
  /\ UNCHANGED <<clientVars, appVars>>

\* proxyRes emits 'error': the response was cut short, with or without a
\* socket error reported on proxyReq before
ResError(message) ==
  /\ upState \in {"open", "aborting"}
  /\ log' = log \o ErrorCalls(message)
  /\ wire' = Send(log, wire, <<ErrorEnvelope(message)>>)
  /\ upState' = "failed"
  /\ UNCHANGED <<ep, apiKey, envKey, up, handler, upReqs, reqErrored, upPos, buffer>>
  /\ UNCHANGED <<clientVars, appVars>>

\* proxyReq emits 'error', once: before a response (connect failure), or
\* while the response is being read (socket error).  Every 'error' listener
\* registered on proxyReq runs.  After a socket error no data and no 'end'
\* follow; the response may still report its own 'error'.
ReqError(message) ==
  /\ upState \in {"pending", "open"}
  /\ ~reqErrored
  /\ LET n == ReqErrorListeners(ep, upState = "open") IN
     /\ log' = log \o Repeat(ErrorCalls(message), n)
     /\ wire' = Send(log, wire, <<ErrorEnvelope(message)>>)
  /\ reqErrored' = TRUE
  /\ upState' = IF upState = "pending" THEN "refused" ELSE "aborting"
  /\ UNCHANGED <<ep, apiKey, envKey, up, handler, upReqs, upPos, buffer>>
  /\ UNCHANGED <<clientVars, appVars>>

\* ------------------------------------------------------------------------
\* Client: streamFromApi (lib/streaming.ts)
\* ------------------------------------------------------------------------

\* a loop body that takes "data:" for the prefix
ClientLineLoose(line, onError) ==
  IF ~StartsWith(line, <<"d", "a", "t", "a", ":">>) THEN [chunks |-> <<>>, errors |-> <<>>]
  ELSE LET data == Trim(Slice(line, 5)) IN
       IF data = DoneSentinel THEN [chunks |-> <<>>, errors |-> <<>>]
       ELSE LET parsed == ParseJSON(data) IN
            [chunks |-> IF parsed.ok /\ parsed.kind = "content" /\ parsed.text # <<>>
                        THEN <<parsed.text>> ELSE <<>>,
             errors |-> IF parsed.ok /\ parsed.kind = "error" /\ parsed.text # <<>> /\ onError
                        THEN <<parsed.text>> ELSE <<>>]

\* body of the for loop: the callbacks one line makes
ClientLine(line, onError) ==
  IF ~StartsWith(line, DataPrefix) THEN [chunks |-> <<>>, errors |-> <<>>]
  ELSE LET data == Trim(Slice(line, 6)) IN
       IF data = DoneSentinel THEN [chunks |-> <<>>, errors |-> <<>>]
       ELSE LET parsed == ParseJSON(data) IN
            [chunks |-> IF parsed.ok /\ parsed.kind = "content" /\ parsed.text # <<>>
                        THEN <<parsed.text>> ELSE <<>>,
             errors |-> IF parsed.ok /\ parsed.kind = "error" /\ parsed.text # <<>> /\ onError
                        THEN <<parsed.text>> ELSE <<>>]

RECURSIVE ClientLines(_, _)
ClientLines(lines, onError) ==
  IF lines = <<>> THEN [chunks |-> <<>>, errors |-> <<>>]
  ELSE LET h == ClientLine(Head(lines), onError)
           t == ClientLines(Tail(lines), onError)
       IN  [chunks |-> h.chunks \o t.chunks, errors |-> h.errors \o t.errors]

\* one round of the while loop for a value the reader returned
OnValue(pending, buf, value, onError) ==
  LET d == TextDecoderDecode(pending, value)
      lines == Split(buf \o d.out)
      c == ClientLines(AllButLast(lines), onError)
  IN  [pending |-> d.rest, buffer |-> Last(lines),
       chunks |-> c.chunks, errors |-> c.errors]

\* a status check that lets every response through
ResponseOkAlways(l) == TRUE

\* response.ok
ResponseOk(l) == \E i \in 1..Len(l) : l[i].op = "flushHeaders"

\* response.status
ResponseStatus(l) ==
  IF \E i \in 1..Len(l) : l[i].op = "status400" THEN "400"
  ELSE IF \E i \in 1..Len(l) : l[i].op = "status500" THEN "500"
  ELSE "200"

\* await response.text() of a response that is not a stream
ResponseText(l) ==
  LET body == SelectSeq(l, LAMBDA c : c.op = "json") IN
  IF body = <<>> THEN <<>> ELSE body[1].data

\* `API error ${response.status}: ${text}`
ApiError(status, text) == <<"API error ", status, ": ">> \o text

\* await fetch(...) returns once the relay has sent its headers; a status
\* that is not ok makes streamFromApi throw
ClientResponse ==
  /\ cstate = "fetching"
  /\ HeadersSent(log)
  /\ cstate' = IF ResponseOk(log) THEN "reading" ELSE "rejected"
  /\ thrown' = IF ResponseOk(log) THEN thrown
               ELSE ApiError(ResponseStatus(log), ResponseText(log))
  /\ UNCHANGED <<hasOnError, cpos, cpending, cbuffer, chunks, errors>>
  /\ UNCHANGED <<relayVars, appVars>>

\* reader.read() returns the next n bytes
ClientRead(n) ==
  /\ cstate = "reading"
  /\ cpos + n <= Len(wire)
  /\ LET r == OnValue(cpending, cbuffer, SubSeq(wire, cpos + 1, cpos + n), hasOnError) IN
     /\ cpending' = r.pending
     /\ cbuffer' = r.buffer
     /\ chunks' = chunks \o r.chunks
     /\ errors' = errors \o r.errors
  /\ cpos' = cpos + n
  /\ UNCHANGED <<cstate, hasOnError, thrown>>
  /\ UNCHANGED <<relayVars, appVars>>

\* a loop that is left before the reader has signalled done
ClientDoneEarly ==
  /\ cstate = "reading"
  /\ cstate' = "resolved"
  /\ UNCHANGED <<hasOnError, cpos, cpending, cbuffer, chunks, errors, thrown>>
  /\ UNCHANGED <<relayVars, appVars>>

\* reader.read() returns done: the response was ended and is read up
ClientDone ==
  /\ cstate = "reading"
  /\ Ended(log)
  /\ cpos = Len(wire)
  /\ cstate' = "resolved"
  /\ UNCHANGED <<hasOnError, cpos, cpending, cbuffer, chunks, errors, thrown>>
  /\ UNCHANGED <<relayVars, appVars>>

Next ==
  \/ Handle
  \/ Response
  \/ \E n \in 1..Len(up) : Data(n)
  \/ End
  \/ \E m \in ErrMessages : ResError(m)
  \/ \E m \in ErrMessages : ReqError(m)

Spec == Init /\ [][Next]_vars

\* ------------------------------------------------------------------------
\* Relay decoder on every upstream body, no transport failure
\* ------------------------------------------------------------------------

\* the lines the provider sends in the relay specification
UpLines ==
  { ContentLine(<<"H">>),
    ContentLine(<<"C3", "A9">>),
    ContentLine(<<>>),
    UpDoneLine,
    DataPrefix \o <<"{e", "x", "}">>,
    DataPrefix \o <<"{u", "H">>,
    <<"d", "a", "t", "a", ":", "{u", "H", "u}">>,
    <<":", "p">>,
    DataPrefix \o <<"{r}">>,
    <<>> }

RelayBodies == WithCut(Bodies(UpLines, MaxLines))

InitRelay ==
  /\ ep = "/api/chat"
  /\ apiKey = Some(<<"k">>)
  /\ envKey = Undefined
  /\ up \in RelayBodies
  /\ RelayStart
  /\ ClientIdle
  /\ AppIdle

NextRelay ==
  \/ Handle
  \/ Response
  \/ \E n \in 1..Len(up) : Data(n)
  \/ End

SpecRelay == InitRelay /\ [][NextRelay]_vars

\* ------------------------------------------------------------------------
\* Relay and client on one stream, no transport failure
\* ------------------------------------------------------------------------

\* the lines the provider sends in the stream specification
StreamLines == {ContentLine(<<"H">>), ContentLine(<<"C3", "A9">>), UpDoneLine}

StreamBodies == WithCut(Bodies(StreamLines, MaxLines))

InitStream ==
  /\ ep = "/api/chat"
  /\ apiKey = Some(<<"k">>)
  /\ envKey = Undefined
  /\ up \in StreamBodies
  /\ RelayStart
  /\ cstate = "fetching" /\ hasOnError = FALSE /\ cpos = 0
  /\ cpending = <<>> /\ cbuffer = <<>> /\ chunks = <<>> /\ errors = <<>>
  /\ thrown = <<>>
  /\ AppIdle

NextStream ==
  \/ Handle
  \/ Response
  \/ \E n \in 1..Len(up) : Data(n)
  \/ End
  \/ ClientResponse
  \/ \E n \in 1..Len(wire) : ClientRead(n)
  \/ ClientDone

SpecStream == InitStream /\ [][NextStream]_vars

\* ------------------------------------------------------------------------
\* Client on every downstream response, whatever server sent it
\* ------------------------------------------------------------------------

\* the lines of a downstream body, without their newline
DownLines ==
  { DataPrefix \o <<"{c", "H", "}">>,
    DataPrefix \o <<"{e", "m", "}">>,
    DataPrefix \o <<"{e", "}">>,
    UpDoneLine,
    DataPrefix \o <<"{c", "H">>,
    DataPrefix \o <<"{c", "}">>,
    <<"d", "a", "t", "a", ":", "{c", "H", "}">>,
    <<":", "p">>,
    <<>> }

DownBodies == WithCut(Bodies(DownLines, MaxLines))

\* the bodies of responses whose status is not ok
FailTexts ==
  { <<"{e", "No API key configured", "}">>,
    ContentEnvelope(<<"H">>) \o ErrorEnvelope(<<"m">>) }

\* what fetch can return: an event stream, still open or ended, or a
\* response with a failure status and a body
DownResponses ==
  {[log |-> StreamHeaders \o e, wire |-> Utf8Encode(b)] :
     b \in DownBodies, e \in {<<>>, <<Call("end", <<>>)>>}}
  \cup
  {[log |-> <<Call(st, <<>>), Call("json", t)>>, wire |-> Utf8Encode(t)] :
     st \in {"status400", "status500"}, t \in FailTexts}

InitClient ==
  /\ ep = "/api/chat"
  /\ apiKey = Undefined /\ envKey = Undefined /\ up = <<>>
  /\ handler = "returned" /\ upReqs = <<>> /\ upState = "none"
  /\ reqErrored = FALSE /\ upPos = 0 /\ buffer = <<>>
  /\ \E r \in DownResponses : log = r.log /\ wire = r.wire
  /\ cstate = "fetching" /\ hasOnError \in BOOLEAN /\ cpos = 0
  /\ cpending = <<>> /\ cbuffer = <<>> /\ chunks = <<>> /\ errors = <<>>
  /\ thrown = <<>>
  /\ AppIdle

NextClient ==
  \/ ClientResponse
  \/ \E n \in 1..Len(wire) : ClientRead(n)
  \/ ClientDone

SpecClient == InitClient /\ [][NextClient]_vars

\* ------------------------------------------------------------------------
\* Build screen: handleGenerate around streamFromApi (app/(tabs)/build.tsx)
\* ------------------------------------------------------------------------

\* addBuildLog(message, type)
Log(message, type) == [message |-> message, type |-> type]

\* the entries handleGenerate adds before it calls streamFromApi, with no
\* file open in the editor
GenerateStarted ==
  <<Log(<<"Starting module generation...">>, "info"),
    Log(<<"Source: ", "editor">>, "info")>>

\* let fullCode: the chunks appended so far; setGeneratedCode keeps the
\* state generatedCode equal to it
FullCode == Flatten(chunks)

\* handleGenerate has run up to `await streamFromApi(...)`, which it calls
\* without an onError callback
InitBuild ==
  /\ ep = "/api/generate-module"
  /\ apiKey = Undefined /\ envKey = Undefined /\ up = <<>>
  /\ handler = "returned" /\ upReqs = <<>> /\ upState = "none"
  /\ reqErrored = FALSE /\ upPos = 0 /\ buffer = <<>>
  /\ \E r \in DownResponses : log = r.log /\ wire = r.wire
  /\ cstate = "fetching" /\ hasOnError = FALSE /\ cpos = 0
  /\ cpending = <<>> /\ cbuffer = <<>> /\ chunks = <<>> /\ errors = <<>>
  /\ thrown = <<>>
  /\ sessions = <<>> /\ FilesIdle /\ ChatIdle
  /\ buildLogs = GenerateStarted /\ isGenerating = TRUE

\* a continuation that takes a stream without a chunk for a failure
GenerateSettledStrict ==
  /\ isGenerating
  /\ cstate \in {"resolved", "rejected"}
  /\ buildLogs' =
       IF cstate = "resolved" /\ chunks # <<>>
       THEN buildLogs \o <<Log(<<"Module generation complete">>, "success"),
                           Log(<<"Generated ", ToString(Len(Split(FullCode))), " lines">>, "info")>>
       ELSE buildLogs \o <<Log(<<"Generation failed: ">> \o thrown, "error")>>
  /\ isGenerating' = FALSE
  /\ UNCHANGED <<relayVars, clientVars, sessions, fileVars, chatVars>>

\* handleGenerate after the await: the promise resolved, or it rejected and
\* the catch block runs; then the finally block
GenerateSettled ==
  /\ isGenerating
  /\ cstate \in {"resolved", "rejected"}
  /\ buildLogs' =
       IF cstate = "resolved"
       THEN buildLogs \o <<Log(<<"Module generation complete">>, "success"),
                           Log(<<"Generated ", ToString(Len(Split(FullCode))), " lines">>, "info")>>
       ELSE buildLogs \o <<Log(<<"Generation failed: ">> \o thrown, "error")>>
  /\ isGenerating' = FALSE
  /\ UNCHANGED <<relayVars, clientVars, sessions, fileVars, chatVars>>

NextBuild ==
  \/ ClientResponse
  \/ \E n \in 1..Len(wire) : ClientRead(n)
  \/ ClientDone
  \/ GenerateSettled

SpecBuild == InitBuild /\ [][NextBuild]_vars

\* ------------------------------------------------------------------------
\* Chat screen: handleSend and the chat messages (app/(tabs)/chat.tsx,
\* lib/app-context.tsx)
\* ------------------------------------------------------------------------

MaxStreams == 2
MaxFragments == 2

\* the text the user types
Typed == <<"q">>

\* the k-th fragment streamFromApi delivers to the i-th handleSend call
Frag(i, k) == <<ToString(10 * i + k)>>

RECURSIVE FirstFragments(_, _)
FirstFragments(i, k) ==
  IF k = 0 THEN <<>> ELSE FirstFragments(i, k - 1) \o Frag(i, k)

\* a chat message; generateId() is unique, and so is the pair of the role
\* and the handleSend call that made the message
Message(role, content, i) == [role |-> role, content |-> content, stream |-> i]

\* setChatMessages(prev => [...prev, msg])
AddChatMessage(msgs, msg) == Append(msgs, msg)

\* setChatMessages(prev => ...) replacing the content of the last message
UpdateLastMessage(msgs, content) ==
  IF Len(msgs) > 0 THEN [msgs EXCEPT ![Len(msgs)].content = content] ELSE msgs

\* the values a render hands to handleSend and to the buttons
Current == [input |-> input, isStreaming |-> isStreaming, chatMessages |-> chatMessages]

InitChat ==
  /\ ep = "/api/chat"
  /\ apiKey = Undefined /\ envKey = Undefined /\ up = <<>>
  /\ RelayStart
  /\ ClientIdle
  /\ sessions = <<>> /\ BuildIdle /\ FilesIdle /\ ChatIdle

\* onChangeText={setInput}
Type ==
  /\ input = <<>>
  /\ input' = Typed
  /\ UNCHANGED <<chatMessages, isStreaming, showTyping, rendered, streams>>
  /\ UNCHANGED <<relayVars, clientVars, sessions, buildVars, fileVars>>

\* React renders the screen: handleSend and the buttons get the state
Render ==
  /\ rendered # Current
  /\ rendered' = Current
  /\ UNCHANGED <<chatMessages, input, isStreaming, showTyping, streams>>
  /\ UNCHANGED <<relayVars, clientVars, sessions, buildVars, fileVars>>

\* handleSend, as the last render made it, up to `await streamFromApi`;
\* a call that the guard turns away changes nothing
HandleSend ==
  /\ Len(streams) < MaxStreams
  /\ Trim(rendered.input) # <<>>
  /\ ~rendered.isStreaming
  /\ input' = <<>>
  /\ chatMessages' =
       AddChatMessage(chatMessages, Message("user", Trim(rendered.input), Len(streams) + 1))
  /\ isStreaming' = TRUE
  /\ showTyping' = TRUE
  /\ streams' = Append(streams, [status |-> "open", fullContent |-> <<>>,
                                 assistantAdded |-> FALSE, k |-> 0])
  /\ UNCHANGED rendered
  /\ UNCHANGED <<relayVars, clientVars, sessions, buildVars, fileVars>>

\* the onChunk callback of the i-th call runs for its next fragment
Chunk(i) ==
  /\ streams[i].status = "open"
  /\ streams[i].k < MaxFragments
  /\ LET full == streams[i].fullContent \o Frag(i, streams[i].k + 1) IN
     /\ streams' = [streams EXCEPT ![i].fullContent = full,
                                   ![i].assistantAdded = TRUE,
                                   ![i].k = @ + 1]
     /\ IF ~streams[i].assistantAdded
        THEN /\ showTyping' = FALSE
             /\ chatMessages' = AddChatMessage(chatMessages, Message("assistant", full, i))
        ELSE /\ chatMessages' = UpdateLastMessage(chatMessages, full)
             /\ UNCHANGED showTyping
  /\ UNCHANGED <<input, isStreaming, rendered>>
  /\ UNCHANGED <<relayVars, clientVars, sessions, buildVars, fileVars>>

\* streamFromApi of the i-th call resolves; the finally block runs
StreamResolved(i) ==
  /\ streams[i].status = "open"
  /\ streams' = [streams EXCEPT ![i].status = "done"]
  /\ isStreaming' = FALSE
  /\ showTyping' = FALSE
  /\ UNCHANGED <<chatMessages, input, rendered>>
  /\ UNCHANGED <<relayVars, clientVars, sessions, buildVars, fileVars>>

\* streamFromApi of the i-th call rejects; the catch and finally blocks run
StreamRejected(i, message) ==
  /\ streams[i].status = "open"
  /\ streams' = [streams EXCEPT ![i].status = "done"]
  /\ chatMessages' =
       IF ~streams[i].assistantAdded
       THEN AddChatMessage(chatMessages, Message("assistant", <<"Error: ">> \o message, i))
       ELSE chatMessages
  /\ isStreaming' = FALSE
  /\ showTyping' = FALSE
  /\ UNCHANGED <<input, rendered>>
  /\ UNCHANGED <<relayVars, clientVars, sessions, buildVars, fileVars>>

\* the trash button, shown while the rendered list has a message
ClearChat ==
  /\ Len(rendered.chatMessages) > 0
  /\ chatMessages # <<>>
  /\ chatMessages' = <<>>
  /\ UNCHANGED <<input, isStreaming, showTyping, rendered, streams>>
  /\ UNCHANGED <<relayVars, clientVars, sessions, buildVars, fileVars>>

NextChat ==
  \/ Type
  \/ Render
  \/ HandleSend
  \/ \E i \in 1..Len(streams) : Chunk(i)
  \/ \E i \in 1..Len(streams) : StreamResolved(i)
  \/ \E i \in 1..Len(streams) : StreamRejected(i, <<"m">>)
  \/ ClearChat

SpecChat == InitChat /\ [][NextChat]_vars

\* ------------------------------------------------------------------------
\* Workspace files (lib/app-context.tsx, app/(tabs)/ide.tsx,
\* app/(tabs)/build.tsx); a name is a sequence of its parts, lastModified
\* is left out
\* ------------------------------------------------------------------------

MaxFiles == 3

DEFAULT_FILE == [name |-> <<"main", ".kt">>, content |-> <<"d">>]
Generated == <<"generated", ".kt">>

\* what the user types as a new file name
NewFileNames == {<<"a">>, <<"a", ".kt">>, <<" ", "main", ".kt">>}
\* what the user types in the editor, or a build generates
Codes == {<<>>, <<"x">>, <<"y">>}

\* name.endsWith('.kt') ? name : `${name}.kt`
KtName(name) ==
  IF Len(name) > 0 /\ name[Len(name)] = ".kt" THEN name ELSE name \o <<".kt">>

Exists(fs, name) == \E i \in 1..Len(fs) : fs[i].name = name

\* the list saveFile hands to setFiles
SaveFile(fs, name, content) ==
  IF Exists(fs, name)
  THEN [i \in 1..Len(fs) |->
         IF fs[i].name = name THEN [fs[i] EXCEPT !.content = content] ELSE fs[i]]
  ELSE Append(fs, [name |-> name, content |-> content])

\* the state after the provider has loaded an empty store
InitFiles ==
  /\ ep = "/api/chat"
  /\ apiKey = Undefined /\ envKey = Undefined /\ up = <<>>
  /\ RelayStart
  /\ ClientIdle
  /\ sessions = <<>> /\ BuildIdle /\ ChatIdle
  /\ files = <<DEFAULT_FILE>>
  /\ currentFile = DEFAULT_FILE.name
  /\ editorCode = DEFAULT_FILE.content

\* onChangeText={setEditorCode}
EditCode(code) ==
  /\ code # editorCode
  /\ editorCode' = code
  /\ UNCHANGED <<files, currentFile>>
  /\ UNCHANGED <<relayVars, clientVars, sessions, buildVars, chatVars>>

\* handleSave: saveFile(currentFile, editorCode)
HandleSave ==
  /\ currentFile # Null
  /\ Exists(files, currentFile) \/ Len(files) < MaxFiles
  /\ files' = SaveFile(files, currentFile, editorCode)
  /\ UNCHANGED <<currentFile, editorCode>>
  /\ UNCHANGED <<relayVars, clientVars, sessions, buildVars, chatVars>>

\* handleSelectFile
HandleSelectFile(name) ==
  /\ Exists(files, name)
  /\ LET file == files[CHOOSE i \in 1..Len(files) :
                      /\ files[i].name = name
                      /\ \A j \in 1..(i - 1) : files[j].name # name] IN
     /\ currentFile' = name
     /\ editorCode' = file.content
  /\ UNCHANGED files
  /\ UNCHANGED <<relayVars, clientVars, sessions, buildVars, chatVars>>

\* handleCreateFile and createFile
HandleCreateFile(newFileName) ==
  /\ Len(files) < MaxFiles
  /\ Trim(newFileName) # <<>>
  /\ LET name == KtName(Trim(newFileName)) IN
     /\ files' = Append(files, [name |-> name, content |-> <<>>])
     /\ currentFile' = name
     /\ editorCode' = <<>>
  /\ UNCHANGED <<relayVars, clientVars, sessions, buildVars, chatVars>>

\* deleteFile, from the delete button of a listed file
DeleteFile(name) ==
  /\ Exists(files, name)
  /\ files' = SelectSeq(files, LAMBDA f : f.name # name)
  /\ currentFile' = IF currentFile = name THEN Null ELSE currentFile
  /\ UNCHANGED editorCode
  /\ UNCHANGED <<relayVars, clientVars, sessions, buildVars, chatVars>>

\* applyToEditor(code, fileName), fileName being Null when it is left out
ApplyToEditor(code, fileName) ==
  LET target == IF fileName # Null THEN fileName
                ELSE IF currentFile # Null THEN currentFile ELSE Generated IN
  /\ Exists(files, target) \/ Len(files) < MaxFiles
  /\ editorCode' = code
  /\ currentFile' = target
  /\ files' = SaveFile(files, target, code)
  /\ UNCHANGED <<relayVars, clientVars, sessions, buildVars, chatVars>>

\* the file names the build screen passes to applyToEditor
TargetFiles == {Null, IF currentFile # Null THEN currentFile ELSE Generated}

NextFiles ==
  \/ \E code \in Codes : EditCode(code)
  \/ HandleSave
  \/ \E i \in 1..Len(files) : HandleSelectFile(files[i].name)
  \/ \E n \in NewFileNames : HandleCreateFile(n)
  \/ \E i \in 1..Len(files) : DeleteFile(files[i].name)
  \/ \E code \in Codes, fileName \in TargetFiles : ApplyToEditor(code, fileName)

SpecFiles == InitFiles /\ [][NextFiles]_vars

\* ------------------------------------------------------------------------
\* The two decoders, each on its own input
\* ------------------------------------------------------------------------

InitDecoders == InitRelay \/ InitClient

NextDecoders == NextRelay \/ NextClient

SpecDecoders == InitDecoders /\ [][NextDecoders]_vars

\* ------------------------------------------------------------------------
\* Two relay requests handled at once, their upstream events interleaved
\* ------------------------------------------------------------------------

MaxConcurrentLines == 1

\* the requests in flight
Requests == {1, 2}

\* the text the provider sends to a request: no two requests get the same
RequestText(r) == IF r = 1 THEN <<"H">> ELSE <<"J">>

ConcurrentBodies(r) ==
  WithCut(Bodies({ContentLine(RequestText(r)), UpDoneLine}, MaxConcurrentLines))

\* one buffer for every request, as a variable outside the handler would be
BufferShared(r) == 1

\* the request whose closure holds the buffer that the listeners of
\* request r use: `let buffer` is declared inside the response callback,
\* so every request has its own
BufferOf(r) == r

\* each request after its response callback has run
InitConcurrent ==
  /\ ep = "/api/chat"
  /\ apiKey = Some(<<"k">>)
  /\ envKey = Undefined
  /\ up = <<>>
  /\ RelayStart
  /\ ClientIdle
  /\ sessions \in [Requests -> [up : UNION {ConcurrentBodies(r) : r \in Requests},
                                upPos : {0}, buffer : {<<>>},
                                log : {StreamHeaders}, upState : {"open"}]]
  /\ \A r \in Requests : sessions[r].up \in ConcurrentBodies(r)
  /\ BuildIdle /\ FilesIdle /\ ChatIdle

\* proxyRes of request r emits 'data' with the next n bytes
ConcurrentData(r, n) ==
  /\ sessions[r].upState = "open"
  /\ sessions[r].upPos + n <= Len(sessions[r].up)
  /\ LET chunk == SubSeq(sessions[r].up, sessions[r].upPos + 1, sessions[r].upPos + n)
         d == OnData(sessions[BufferOf(r)].buffer, chunk)
     IN  sessions' =
           [t \in Requests |->
             [sessions[t] EXCEPT
                !.buffer = IF t = BufferOf(r) THEN d.buffer ELSE @,
                !.log = IF t = r THEN @ \o Writes(d.writes) ELSE @,
                !.upPos = IF t = r THEN @ + n ELSE @]]
  /\ UNCHANGED <<relayVars, clientVars, buildVars, fileVars, chatVars>>

\* proxyRes of request r emits 'end'
ConcurrentEnd(r) ==
  /\ sessions[r].upState = "open"
  /\ sessions[r].upPos = Len(sessions[r].up)
  /\ sessions' =
       [sessions EXCEPT
          ![r].log = @ \o Writes(OnEnd(sessions[BufferOf(r)].buffer))
                       \o <<Call("end", <<>>)>>,
          ![r].upState = "ended"]
  /\ UNCHANGED <<relayVars, clientVars, buildVars, fileVars, chatVars>>

NextConcurrent ==
  \/ \E r \in Requests : \E n \in 1..Len(sessions[r].up) : ConcurrentData(r, n)
  \/ \E r \in Requests : ConcurrentEnd(r)

SpecConcurrent == InitConcurrent /\ [][NextConcurrent]_vars

\* ------------------------------------------------------------------------
\* Properties
\* ------------------------------------------------------------------------

IsWrite(c) == c.op = "write"
IsEnd(c) == c.op = "end"

\* the strings written to the response, in order
Written(l) ==
  LET w == SelectSeq(l, IsWrite) IN [i \in 1..Len(w) |-> w[i].data]

\* number of res.end() calls
EndCount(l) == Len(SelectSeq(l, IsEnd))

HeadersFlushed == \E i \in 1..Len(log) : log[i].op = "flushHeaders"

IsPrefix(a, b) == Len(a) <= Len(b) /\ SubSeq(b, 1, Len(a)) = a

\* the fragment an upstream line carries, <<>> when it carries none
Fragment(line) ==
  IF StartsWith(line, DataPrefix)
  THEN DeltaContent(ParseJSON(Trim(Slice(line, 6)))) ELSE <<>>

RECURSIVE Fragments(_)
Fragments(lines) ==
  IF lines = <<>> THEN <<>>
  ELSE (IF Fragment(Head(lines)) # <<>> THEN <<Fragment(Head(lines))>> ELSE <<>>)
       \o Fragments(Tail(lines))

\* the fragments the provider produced in a body, in order
Produced(body) == Fragments(Split(Utf8Decode(body, FALSE).out))

RECURSIVE Envelopes(_)
Envelopes(frags) ==
  IF frags = <<>> THEN <<>>
  ELSE <<ContentEnvelope(Head(frags))>> \o Envelopes(Tail(frags))

\* C1: a session that has flushed its headers ends the downstream response
\* exactly once: never twice, and once the upstream has ended or failed
\* never zero times.
C1_EndedExactlyOnce ==
  HeadersFlushed =>
    /\ EndCount(log) <= 1
    /\ upState \in {"refused", "aborting", "ended", "failed"} => EndCount(log) = 1

\* C2: the fragments reach onChunk in the order the provider produced them,
\* none twice and none missing, whatever the chunking of the two streams.
C2_FragmentsInOrder ==
  /\ IsPrefix(chunks, Produced(up))
  /\ cstate = "resolved" => chunks = Produced(up)

\* C3: a handler that throws after the headers were flushed writes an error
\* envelope and ends the response; the response is not left open with no
\* upstream activity pending.
C3_ThrowEndsResponse ==
  (HeadersFlushed /\ handler = "threw") =>
    /\ \E m \in ErrMessages : Call("write", ErrorEnvelope(m)) \in {log[i] : i \in 1..Len(log)}
    /\ EndCount(log) >= 1

\* the request and the environment both lack a non-empty credential
NoCredential ==
  /\ apiKey \in {Undefined, Some(<<>>)}
  /\ envKey \in {Undefined, Some(<<>>)}

\* C4: with no credential in the request and none in the environment the
\* endpoint answers 400 with a JSON error and nothing else happens: no
\* upstream request, no event-stream header, no envelope line.
C4_MissingCredential ==
  (NoCredential /\ handler # "start") =>
    /\ handler = "rejected"
    /\ log = <<Call("status400", <<>>),
               Call("json", <<"{e", "No API key configured", "}">>)>>
    /\ upReqs = <<>> /\ upState = "none" /\ wire = <<>>

C4_Witness ==
  /\ handler = "rejected" /\ ep = "/api/self-modify"
  /\ apiKey = Some(<<>>) /\ envKey = Undefined

\* the credential the precedence rule selects
Resolved ==
  IF apiKey \notin {Undefined, Some(<<>>)} THEN apiKey[1] ELSE envKey[1]

\* C5: the credential sent upstream is the request credential when that is
\* present and non-empty and the environment credential otherwise.
C5_CredentialPrecedence ==
  /\ upReqs # <<>> => upReqs = <<[authorization |-> <<"Bearer", " ">> \o Resolved]>>
  /\ (handler = "returned" /\ ~NoCredential) => upReqs # <<>>

C5_Witness ==
  /\ upReqs # <<>> /\ apiKey = Some(<<>>) /\ envKey = Some(<<"e">>)

\* bodies of content lines followed by one terminator line
DoneTerminated ==
  {b \o UpDoneLine \o <<NL>> :
     b \in Bodies({ContentLine(<<"H">>), ContentLine(<<"C3", "A9">>)}, MaxLines - 1) \ {<<>>}}

\* C6: for content lines followed by one terminator line and the end of the
\* stream, the relay writes one content envelope per fragment, in order,
\* and then exactly one terminator line.
C6_OneTerminator ==
  (upState = "ended" /\ up \in DoneTerminated) =>
    Written(log) = Envelopes(Produced(up)) \o <<DoneLine>>

\* C7: once a terminator line has been written downstream, no content or
\* error envelope is written after it.
C7_NothingAfterTerminator ==
  \A i \in 1..Len(log) : \A j \in (i + 1)..Len(log) :
    (log[i] = Call("write", DoneLine) /\ log[j].op = "write") => log[j].data = DoneLine

\* an upstream line whose payload carries an error field
UpErrorLine == DataPrefix \o <<"{e", "x", "}">>

\* C8: an upstream data line whose payload carries an error field makes the
\* relay write an error envelope with that value and end the response.
C8_UpstreamErrorForwarded ==
  (upState = "ended" /\ \E k \in 1..Len(Split(up)) : Split(up)[k] = UpErrorLine) =>
    \E i \in 1..Len(log) : log[i] = Call("write", ErrorEnvelope(<<"x">>))

\* C9: when the upstream connection fails before a response, the downstream
\* receives exactly one error envelope with a non-empty message, no content
\* envelope and no terminator, and is then ended.
C9_ConnectFailure ==
  upState = "refused" =>
    /\ \E m \in ErrMessages \ {<<>>} : Written(log) = <<ErrorEnvelope(m)>>
    /\ EndCount(log) = 1
    /\ log[Len(log)].op = "end"

\* what the relay writes when the whole body arrives in one chunk
RelayOneChunk(body) ==
  IF body = <<>> THEN OnEnd(<<>>)
  ELSE OnData(<<>>, body).writes \o OnEnd(OnData(<<>>, body).buffer)

\* the onChunk calls when the whole response arrives in one read
ClientOneChunk(w) ==
  IF w = <<>> THEN <<>> ELSE OnValue(<<>>, <<>>, w, FALSE).chunks

\* C10: however the streams are split into chunks, the relay writes what
\* it writes for the body in one chunk, and the client makes the onChunk
\* calls it makes for the response in one read.
C10_ChunkingInvariance ==
  /\ upState = "ended" => Written(log) = RelayOneChunk(up)
  /\ cstate = "resolved" => chunks = ClientOneChunk(wire)

\* body has the line l among its lines
HasLine(body, l) == \E k \in 1..Len(Split(body)) : Split(body)[k] = l

\* the writes of a response other than the terminator
ContentWrites(l) == SelectSeq(Written(l), LAMBDA w : w # DoneLine)

\* the field a downstream line carries under the key of kind k, <<>> when
\* it carries none
DownField(line, k) ==
  IF StartsWith(line, DataPrefix) /\ ParseJSON(Trim(Slice(line, 6))).kind = k
  THEN ParseJSON(Trim(Slice(line, 6))).text ELSE <<>>

RECURSIVE DownFields(_, _)
DownFields(lines, k) ==
  IF lines = <<>> THEN <<>>
  ELSE (IF DownField(Head(lines), k) # <<>> THEN <<DownField(Head(lines), k)>> ELSE <<>>)
       \o DownFields(Tail(lines), k)

\* the lines of a downstream body that are ended by a newline
CompleteLines(w) == AllButLast(Split(Utf8Decode(w, FALSE).out))

\* the content and the error values of the complete lines of a body
Delivered(w) == DownFields(CompleteLines(w), "content")
Reported(w) == DownFields(CompleteLines(w), "error")

\* data lines whose payload is not valid JSON
MalformedUp == DataPrefix \o <<"{u", "H">>
MalformedDown == DataPrefix \o <<"{c", "H">>

\* C11: a data line whose payload is not valid JSON is skipped, nothing is
\* written or called back for it, and the valid lines around it are decoded
\* as if it were absent: the relay writes one content envelope per
\* fragment of the valid lines, in order, and the client calls back once
\* per content and per error value of the valid lines, in order.
C11_MalformedSkipped ==
  /\ (upState = "ended" /\ HasLine(up, MalformedUp)) =>
       LET w == ContentWrites(log)
           f == Produced(up)
       IN  /\ Len(w) = Len(f)
           /\ \A k \in 1..Len(f) : f[k] = <<"H">> => w[k] = ContentEnvelope(<<"H">>)
  /\ (cstate = "resolved" /\ HasLine(wire, MalformedDown)) =>
       /\ chunks = Delivered(wire)
       /\ errors = IF hasOnError THEN Reported(wire) ELSE <<>>

C11_Witness ==
  /\ upState = "ended"
  /\ up = MalformedUp \o <<NL>> \o ContentLine(<<"H">>) \o <<NL>>
  /\ Written(log) = <<ContentEnvelope(<<"H">>), DoneLine>>

\* the client half of the case of C11
C11_ClientCase ==
  /\ cstate = "resolved"
  /\ wire = MalformedDown \o <<NL>> \o DataPrefix \o <<"{c", "H", "}", NL>>
  /\ chunks = <<<<"H">>>>

\* what an upstream body leaves after its last newline
Residual(body) == Last(Split(body))

\* the terminator lines written to a response
DoneWrites(l) == SelectSeq(Written(l), LAMBDA w : w = DoneLine)

\* number of terminator lines of a body that are ended by a newline
CompleteDone(body) ==
  Cardinality({k \in 1..(Len(Split(body)) - 1) : Split(body)[k] = UpDoneLine})

\* C12: when the upstream ends with a line left in the buffer, the end
\* handler processes that line once before it finishes: a residual
\* content line is written as the last content envelope, right before the
\* final terminator; a residual terminator line adds no content envelope
\* and no terminator of its own, the final terminator standing for it.
C12_ResidualProcessed ==
  upState = "ended" =>
    LET w == Written(log) IN
    /\ Residual(up) = ContentLine(<<"H">>) =>
         /\ Len(w) >= 2
         /\ w[Len(w) - 1] = ContentEnvelope(<<"H">>)
         /\ w[Len(w)] = DoneLine
         /\ Len(ContentWrites(log)) = Len(Produced(up))
         /\ Len(DoneWrites(log)) = CompleteDone(up) + 1
    /\ Residual(up) = UpDoneLine =>
         /\ w[Len(w)] = DoneLine
         /\ Len(ContentWrites(log)) = Len(Produced(up))
         /\ Len(DoneWrites(log)) = CompleteDone(up) + 1

C12_Witness ==
  /\ upState = "ended"
  /\ up = UpDoneLine \o <<NL>> \o ContentLine(<<"H">>)
  /\ Written(log) = <<DoneLine, ContentEnvelope(<<"H">>), DoneLine>>

\* every line of a downstream body, the one after the last newline included
AllLines(w) == Split(Utf8Decode(w, FALSE).out)

\* C13: when the body ends with a line that has no newline, streamFromApi
\* processes that line before it resolves: onChunk has been called for
\* the content of every line of the body, the last one included.
C13_ResidualDelivered ==
  cstate = "resolved" => chunks = DownFields(AllLines(wire), "content")

\* payload of a data line
Payload(line) == Trim(Slice(line, 6))

\* no line of the body is a terminator line
NoTerminator(body) ==
  \A k \in 1..Len(Split(body)) :
    ~(StartsWith(Split(body)[k], DataPrefix) /\ Payload(Split(body)[k]) = DoneSentinel)

\* C14: when the upstream ends without having sent a terminator line, be
\* the body empty or its last line partial, the relay still writes the
\* terminator line, once, as its last write, and ends the response
\* right after it.
C14_TerminatorAlways ==
  (upState = "ended" /\ NoTerminator(up)) =>
    /\ Len(log) >= 2
    /\ log[Len(log)] = Call("end", <<>>)
    /\ log[Len(log) - 1] = Call("write", DoneLine)
    /\ Len(DoneWrites(log)) = 1

C14_Witness ==
  /\ upState = "ended"
  /\ up = ContentLine(<<"H">>)
  /\ SubSeq(log, Len(log) - 2, Len(log)) =
       <<Call("write", ContentEnvelope(<<"H">>)), Call("write", DoneLine), Call("end", <<>>)>>

\* the empty body among the cases of C14
C14_EmptyBody ==
  /\ upState = "ended" /\ up = <<>>
  /\ Written(log) = <<DoneLine>>

\* position of the first call of an operation in the log, 0 when absent
FirstCall(l, op) ==
  IF \E i \in 1..Len(l) : l[i].op = op
  THEN CHOOSE i \in 1..Len(l) : l[i].op = op /\ \A j \in 1..(i - 1) : l[j].op # op
  ELSE 0

\* C15: in every streaming session the three event-stream headers are set
\* and flushed before the upstream request is created and before anything
\* is written to the response.
C15_HeadersFirst ==
  \A i \in 1..Len(log) :
    log[i].op \in {"https.request", "write", "end"} =>
      /\ i > 4
      /\ SubSeq(log, 1, 4) =
           <<Call("setHeader", <<"Content-Type", "text/event-stream">>),
             Call("setHeader", <<"Cache-Control", "no-cache, no-transform">>),
             Call("setHeader", <<"X-Accel-Buffering", "no">>),
             Call("flushHeaders", <<>>)>>

C15_Witness ==
  /\ FirstCall(log, "flushHeaders") = 4
  /\ FirstCall(log, "https.request") = 5
  /\ FirstCall(log, "write") = 6
  /\ log[6].data = ContentEnvelope(<<"H">>)

\* the response has a failure status
FailureStatus == Len(log) >= 2 /\ log[1].op \in {"status400", "status500"}

\* C16: when the response has a failure status, streamFromApi rejects
\* with an error that carries the status code and the body text, and it
\* calls neither onChunk nor onError, even when the body holds well-formed
\* envelope lines.
C16_FailureRejects ==
  (FailureStatus /\ cstate # "fetching") =>
    /\ cstate = "rejected"
    /\ thrown = <<"API error ", IF log[1].op = "status400" THEN "400" ELSE "500", ": ">>
                 \o log[2].data
    /\ chunks = <<>>
    /\ errors = <<>>

C16_Witness ==
  /\ cstate = "rejected" /\ hasOnError
  /\ thrown = <<"API error ", "500", ": ">>
                \o ContentEnvelope(<<"H">>) \o ErrorEnvelope(<<"m">>)

\* the values of the error field of the lines that carry one, in order
RECURSIVE ErrorValues(_)
ErrorValues(lines) ==
  IF lines = <<>> THEN <<>>
  ELSE (IF StartsWith(Head(lines), DataPrefix) /\ ParseJSON(Payload(Head(lines))).kind = "error"
        THEN <<ParseJSON(Payload(Head(lines))).text>> ELSE <<>>)
       \o ErrorValues(Tail(lines))

\* C17: every error envelope makes the client call onError with its
\* value, when onError was supplied, and the client keeps reading: it
\* neither rejects nor stops, and the content envelopes after an error
\* envelope are delivered as those before it.
C17_ErrorContinues ==
  /\ errors # <<>> => (hasOnError /\ cstate \in {"reading", "resolved"} /\ thrown = <<>>)
  /\ cstate = "resolved" =>
       /\ chunks = Delivered(wire)
       /\ errors = IF hasOnError THEN ErrorValues(CompleteLines(wire)) ELSE <<>>

\* C18: streamFromApi resolves only when the reader signals done, that is
\* when the response was ended and every byte of it was read; a terminator
\* line does not stop the reading, the content of the lines after it is
\* delivered; once resolved the state stays resolved and no callback is
\* made.
C18_ResolvesOnDone ==
  /\ [](cstate = "resolved" =>
          /\ Ended(log)
          /\ cpos = Len(wire)
          /\ chunks = Delivered(wire))
  /\ [][cstate = "resolved" =>
          (cstate' = "resolved" /\ chunks' = chunks /\ errors' = errors)]_vars

C18_Witness ==
  /\ cstate = "resolved"
  /\ wire = UpDoneLine \o <<NL>> \o DataPrefix \o <<"{c", "H", "}", NL>>
  /\ chunks = <<<<"H">>>>

\* the source is still open and all of it was read: the client waits
C18_Waiting ==
  /\ cstate = "reading" /\ ~Ended(log)
  /\ cpos = Len(wire) /\ HasLine(wire, UpDoneLine)

\* number of calls of an operation in the log
CallCount(l, op) == Len(SelectSeq(l, LAMBDA c : c.op = op))

IsSuffix(a, b) == Len(a) <= Len(b) /\ SubSeq(b, Len(b) - Len(a) + 1, Len(b)) = a

\* C19: a session opens at most one upstream request in its lifetime,
\* also after the request or the response has reported an error, and the
\* failure reaches the client as an error envelope: the envelope is
\* written before the response is ended and it is the last thing sent.
C19_OneUpstreamRequest ==
  /\ Len(upReqs) <= 1
  /\ CallCount(log, "https.request") <= 1
  /\ upState \in {"refused", "aborting", "failed"} =>
       /\ Len(upReqs) = 1
       /\ \E m \in ErrMessages :
            /\ \E i \in 1..Len(log) :
                 /\ log[i] = Call("write", ErrorEnvelope(m))
                 /\ \A j \in 1..(i - 1) : log[j].op # "end"
            /\ IsSuffix(Utf8Encode(ErrorEnvelope(m)), wire)

C19_Witness ==
  /\ upState = "failed" /\ reqErrored
  /\ Len(upReqs) = 1
  /\ upPos > 0
  /\ IsSuffix(Utf8Encode(ErrorEnvelope(<<"m">>)), wire)

\* the upstream response has ended, or the request or the response has
\* reported an error
UpstreamOver == upState \in {"refused", "aborting", "ended", "failed"}

\* C20: the lifetimes are paired: in every state where the upstream
\* response has ended or the upstream request or response has reported an
\* error, the downstream response has been ended, so no such state leaves
\* the downstream open.
C20_LifetimePairing ==
  UpstreamOver => (Ended(log) /\ EndCount(log) >= 1 /\ HeadersFlushed)

C20_Witness ==
  /\ upState = "aborting" /\ ep = "/api/generate-module"
  /\ log[Len(log)] = Call("end", <<>>)
  /\ upPos > 0

\* C21: with the upstream events of two requests interleaved in any order,
\* what each request has written is what it writes when it runs alone,
\* and nothing of the other request's text is in it.
C21_SessionIsolation ==
  \A r \in Requests :
    LET w == Written(sessions[r].log) IN
    /\ IsPrefix(w, RelayOneChunk(sessions[r].up))
    /\ sessions[r].upState = "ended" =>
         /\ w = RelayOneChunk(sessions[r].up)
         /\ sessions[r].log[Len(sessions[r].log)] = Call("end", <<>>)
    /\ \A i \in 1..Len(w) : \A t \in Requests \ {r} :
         \A k \in 1..Len(w[i]) : <<w[i][k]>> # RequestText(t)

\* both requests were stopped in the middle of a line, then both finished
C21_Witness ==
  /\ \A r \in Requests :
       /\ sessions[r].upState = "ended"
       /\ sessions[r].up = ContentLine(RequestText(r)) \o <<NL>>
       /\ Written(sessions[r].log) = <<ContentEnvelope(RequestText(r)), DoneLine>>

\* the text of the input received so far and the part of it after the
\* last newline
TextOf(bytes) == Utf8Decode(bytes, TRUE).out
AfterLastNL(bytes) == Last(Split(TextOf(bytes)))

NoNL(str) == \A i \in 1..Len(str) : str[i] # NL

\* C22: after every chunk, in the relay and in the client, the buffer has
\* no newline and is the part of the input received so far that follows
\* the last newline, and the lines before that newline have been processed
\* once each, in order.
C22_BufferInvariant ==
  /\ upState \in {"open", "ended"} =>
       LET received == SubSeq(up, 1, upPos) IN
       /\ NoNL(buffer)
       /\ buffer = AfterLastNL(received)
       /\ upState = "open" =>
            Written(log) = DataLines(AllButLast(Split(TextOf(received))))
  /\ cstate \in {"reading", "resolved"} =>
       LET received == SubSeq(wire, 1, cpos) IN
       /\ NoNL(cbuffer)
       /\ cbuffer = AfterLastNL(received)
       /\ chunks = Delivered(received)

\* the line begins with the six characters of the prefix
IsDataLine(line) == Len(line) >= 6 /\ SubSeq(line, 1, 6) = <<"d", "a", "t", "a", ":", " ">>

RECURSIVE Join(_)
Join(lines) ==
  IF lines = <<>> THEN <<>> ELSE Head(lines) \o <<NL>> \o Join(Tail(lines))

\* a body without its lines that are not data lines
DataOnly(body) ==
  Join(SelectSeq(AllButLast(Split(body)), IsDataLine))
  \o (IF IsDataLine(Last(Split(body))) THEN Last(Split(body)) ELSE <<>>)

HasNonData(body) ==
  \E k \in 1..(Len(Split(body)) - 1) : ~IsDataLine(Split(body)[k])

IsAscii(body) == \A i \in 1..Len(body) : body[i] \notin {"C3", "A9"}

\* C23: complete lines that do not begin with the prefix (blank lines,
\* comment lines, "data:" without the space) cause no write in the relay
\* and no callback in the client and leave the decoding of the other
\* lines as it is: the output is the output for the body without them.
C23_NonDataIgnored ==
  /\ (upState = "ended" /\ HasNonData(up)) =>
       /\ Len(ContentWrites(log)) = Len(Produced(DataOnly(up)))
       /\ IsAscii(up) => Written(log) = RelayOneChunk(DataOnly(up))
  /\ (cstate = "resolved" /\ HasNonData(wire)) =>
       LET alone == IF DataOnly(wire) = <<>> THEN [chunks |-> <<>>, errors |-> <<>>]
                    ELSE OnValue(<<>>, <<>>, DataOnly(wire), hasOnError)
       IN  chunks = alone.chunks /\ errors = alone.errors

C23_Witness ==
  /\ upState = "ended"
  /\ up = <<"d", "a", "t", "a", ":", "{u", "H", "u}", NL>> \o ContentLine(<<"H">>) \o <<NL>>
  /\ Written(log) = <<ContentEnvelope(<<"H">>), DoneLine>>

\* the client half of the case of C23
C23_ClientCase ==
  /\ cstate = "resolved"
  /\ wire = <<":", "p", NL>> \o DataPrefix \o <<"{c", "H", "}", NL>>
  /\ chunks = <<<<"H">>>>

\* the error events and the end or error events a session has seen
ErrorEvents ==
  CASE upState \in {"refused", "aborting"} -> 1
    [] upState = "failed" -> IF reqErrored THEN 2 ELSE 1
    [] OTHER -> 0

TerminalEvents == IF upState = "ended" THEN 1 ELSE ErrorEvents

IsErrorWrite(c) == c.op = "write" /\ \E m \in ErrMessages : c.data = ErrorEnvelope(m)

\* C24: the three endpoints relay alike: the calls on the response follow
\* from the upstream events alone, whatever the endpoint, with one error
\* envelope per error event and one end call per end or error event.
C24_EndpointsEquivalent ==
  /\ Len(SelectSeq(log, IsErrorWrite)) = ErrorEvents
  /\ EndCount(log) = TerminalEvents

\* C25: once the response has been ended, no envelope line is written to
\* it any more, whatever upstream events arrive afterwards.
C25_NoWriteAfterEnd ==
  \A i \in 1..Len(log) : \A j \in (i + 1)..Len(log) :
    log[i].op = "end" => log[j].op # "write"

\* C26: the relay never writes a content envelope with empty content, a
\* payload whose content is missing or empty causing no write at all, and
\* the client never calls onChunk with an empty fragment.
C26_NoEmptyContent ==
  /\ \A i \in 1..Len(log) :
       log[i].op = "write" => log[i].data # ContentEnvelope(<<>>)
  /\ upState = "ended" => Len(ContentWrites(log)) = Len(Produced(up))
  /\ \A k \in 1..Len(chunks) : chunks[k] # <<>>
  /\ cstate = "resolved" => Len(chunks) = Len(Delivered(wire))

C26_Witness ==
  /\ upState = "ended"
  /\ up = DataPrefix \o <<"{r}", NL>> \o ContentLine(<<>>)
  /\ Written(log) = <<DoneLine>>

\* the client half of the case of C26
C26_ClientCase ==
  /\ cstate = "resolved"
  /\ wire = DataPrefix \o <<"{c", "}", NL>> \o DataPrefix \o <<"{c", "H", "}", NL>>
  /\ chunks = <<<<"H">>>>

\* the complete lines of the body are error envelopes, at least one, and
\* nothing is left after the last newline
ErrorOnly(w) ==
  /\ CompleteLines(w) # <<>>
  /\ \A k \in 1..Len(CompleteLines(w)) :
       /\ IsDataLine(CompleteLines(w)[k])
       /\ ParseJSON(Payload(CompleteLines(w)[k])).kind = "error"
  /\ Last(AllLines(w)) = <<>>

\* what the build log holds after a successful stream that was empty
EmptyStreamLogs ==
  GenerateStarted \o <<Log(<<"Module generation complete">>, "success"),
                       Log(<<"Generated ", "1", " lines">>, "info")>>

\* C27: an error envelope never makes streamFromApi reject: the promise
\* rejects only for a failure status; without an onError callback the
\* error is dropped, and a stream of error envelopes alone resolves as an
\* empty stream does, the build screen logging 'Module generation
\* complete'.
C27_ErrorEnvelopeResolves ==
  /\ cstate = "rejected" => FailureStatus
  /\ errors = <<>>
  /\ (~FailureStatus /\ ErrorOnly(wire)) =>
       /\ cstate # "rejected" /\ chunks = <<>>
       /\ ~isGenerating => (cstate = "resolved" /\ buildLogs = EmptyStreamLogs)

C27_Witness ==
  /\ ~isGenerating /\ cstate = "resolved"
  /\ wire = DataPrefix \o <<"{e", "m", "}", NL>>
  /\ buildLogs[3] = Log(<<"Module generation complete">>, "success")

\* the successful empty stream the case of C27 is compared with
C27_EmptyStream ==
  /\ ~isGenerating /\ cstate = "resolved" /\ wire = <<>>
  /\ buildLogs = EmptyStreamLogs

\* the handleSend calls whose stream has neither resolved nor rejected
InFlight == {i \in 1..Len(streams) : streams[i].status = "open"}

\* C28: at most one chat stream is in flight at any time, a handleSend
\* call made while one is in flight starting no request and appending no
\* message; and isStreaming is false again once the stream has resolved or
\* thrown.
C28_SingleFlight ==
  /\ Cardinality(InFlight) <= 1
  /\ (streams # <<>> /\ InFlight = {}) => ~isStreaming

\* C29: during a chat stream, whatever clearChat does in between, fragments
\* change only the assistant message appended for that stream: every user
\* message keeps the text that was sent, and after k fragments the
\* assistant message of a stream, if still in the list, holds the
\* concatenation of the first k fragments of that stream.
C29_FragmentsOwnMessage ==
  \A n \in 1..Len(chatMessages) :
    LET m == chatMessages[n] IN
    /\ m.role = "user" => m.content = Typed
    /\ (m.role = "assistant" /\ streams[m.stream].assistantAdded)
         => m.content = FirstFragments(m.stream, streams[m.stream].k)

\* every file name occurs once in the list
NoDuplicates ==
  \A i, j \in 1..Len(files) : files[i].name = files[j].name => i = j

\* a step that saves the current file under a name the list already has
SaveExisting == HandleSave /\ Exists(files, currentFile)

\* the save replaced the content under that name and nothing else
SavedInPlace ==
  /\ Len(files') = Len(files)
  /\ \A i \in 1..Len(files) :
       /\ files'[i].name = files[i].name
       /\ files'[i].content =
            IF files[i].name = currentFile THEN editorCode ELSE files[i].content

\* C30: after any sequence of createFile, saveFile, deleteFile and
\* applyToEditor every file name occurs at most once in the file list; and
\* saveFile on an existing name replaces the content of that entry, the
\* length of the list and all other entries staying as they were.
C30_UniqueNames ==
  /\ []NoDuplicates
  /\ [][SaveExisting => SavedInPlace]_vars

====
